---- MODULE Spec2Model ----
(***************************************************************************)
(* A model of openfisca-nl: the variable formulas of                       *)
(* src/openfisca_nl/variables/*.py evaluated by the dependency evaluator   *)
(* (cache, nested evaluate calls, period conversion, household             *)
(* aggregation, bracket scales).                                           *)
(*                                                                         *)
(* Amounts are Python floats in the source: IEEE 754 binary64.  A float    *)
(* is modelled bit for bit, as sign * m * 2^e with m an odd natural below  *)
(* 2^53 held in limbs of 15 bits, and every operation rounds its exact     *)
(* result to the nearest float, ties to even.  Infinities, NaN, the sign   *)
(* of zero and the limits of the exponent are left out: the amounts of     *)
(* the model stay far from them.                                           *)
(***************************************************************************)
EXTENDS Integers, Sequences, FiniteSets, TLC

VARIABLES
    registry,   \* names of the registered variables (immutable during a run)
    inputs,     \* caller-supplied inputs: (name, period) -> vector
    cache,      \* the run's calculation cache: (name, period) -> vector
    stack,      \* pending evaluate calls, innermost last
    outcome,    \* what the last evaluate call of the caller gave back
    calls,      \* how many times each (name, period) formula was invoked in the run
    requests,   \* evaluate calls the caller has issued for runPeriod
    runPeriod,  \* the month the caller's requests are about
    asked,      \* the names the caller asks for in this run
    scaleIn,    \* bracket scale handed to calc (bracket scale check)
    valsIn,     \* pair of values handed to calc
    calcOut     \* what calc returned for the pair, or the error it raised

vars == <<registry, inputs, cache, stack, outcome, calls, requests,
          runPeriod, asked,
          scaleIn, valsIn, calcOut>>

evalVars ==
    <<registry, inputs, cache, stack, outcome, calls, requests, runPeriod,
      asked>>
calcVars == <<scaleIn, valsIn, calcOut>>

----------------------------------------------------------------------------
(* Bounds of the model *)

NPersons == 2
NHouseholds == 1
NYears == 1
MaxRequests == 2
SuppliedMonths == 6
MaxBrackets == 2
MaxThreshold == 3
MaxValueSteps == 6

----------------------------------------------------------------------------
(* Binary floating point: IEEE 754 binary64, round to nearest, ties to even *)

LimbBits == 15
Base == 32768
Precision == 53

RECURSIVE Pow2(_)
Pow2(n) == IF n = 0 THEN 1 ELSE 2 * Pow2(n - 1)

RECURSIVE BitLength(_)
BitLength(n) == IF n = 0 THEN 0 ELSE 1 + BitLength(n \div 2)

RECURSIVE TrailingZeros(_)
TrailingZeros(n) == IF n % 2 = 1 THEN 0 ELSE 1 + TrailingZeros(n \div 2)

\* natural numbers of any size: sequences of limbs below Base, least
\* significant first, the last one not 0; <<>> is 0
Limb(x, i) == IF i <= Len(x) THEN x[i] ELSE 0

RECURSIVE BTrim(_)
BTrim(x) ==
    IF x # <<>> /\ x[Len(x)] = 0 THEN BTrim(SubSeq(x, 1, Len(x) - 1)) ELSE x

RECURSIVE BFromNat(_)
BFromNat(n) == IF n = 0 THEN <<>> ELSE <<n % Base>> \o BFromNat(n \div Base)

RECURSIVE BAddFrom(_, _, _, _)
BAddFrom(x, y, i, carry) ==
    IF i > Len(x) /\ i > Len(y)
    THEN (IF carry = 0 THEN <<>> ELSE <<carry>>)
    ELSE LET s == Limb(x, i) + Limb(y, i) + carry
         IN  <<s % Base>> \o BAddFrom(x, y, i + 1, s \div Base)

BAdd(x, y) == BAddFrom(x, y, 1, 0)

\* x - y for x >= y
RECURSIVE BSubFrom(_, _, _, _)
BSubFrom(x, y, i, borrow) ==
    IF i > Len(x) THEN <<>>
    ELSE LET d == x[i] - Limb(y, i) - borrow
         IN  <<(d + Base) % Base>>
                \o BSubFrom(x, y, i + 1, IF d < 0 THEN 1 ELSE 0)

BSub(x, y) == BTrim(BSubFrom(x, y, 1, 0))

RECURSIVE BCmpAt(_, _, _)
BCmpAt(x, y, i) ==
    IF i = 0 THEN 0
    ELSE IF x[i] < y[i] THEN 0 - 1
    ELSE IF x[i] > y[i] THEN 1
    ELSE BCmpAt(x, y, i - 1)

\* -1, 0 or 1 as x is below, equal to or above y
BCmp(x, y) ==
    IF Len(x) < Len(y) THEN 0 - 1
    ELSE IF Len(x) > Len(y) THEN 1
    ELSE BCmpAt(x, y, Len(x))

\* x * k for 0 <= k < Base
RECURSIVE BMulSmallFrom(_, _, _, _)
BMulSmallFrom(x, k, i, carry) ==
    IF i > Len(x) THEN (IF carry = 0 THEN <<>> ELSE <<carry>>)
    ELSE LET p == x[i] * k + carry
         IN  <<p % Base>> \o BMulSmallFrom(x, k, i + 1, p \div Base)

BMulSmall(x, k) == IF k = 0 THEN <<>> ELSE BMulSmallFrom(x, k, 1, 0)

BShiftLimbs(x, n) == IF x = <<>> THEN <<>> ELSE [i \in 1..n |-> 0] \o x

RECURSIVE BMulFrom(_, _, _)
BMulFrom(x, y, i) ==
    IF i > Len(y) THEN <<>>
    ELSE BAdd(BShiftLimbs(BMulSmall(x, y[i]), i - 1), BMulFrom(x, y, i + 1))

BMul(x, y) == BMulFrom(x, y, 1)

\* quotient and remainder of x by k, 0 < k <= Base
RECURSIVE BDivSmallAt(_, _, _, _)
BDivSmallAt(x, k, i, rem) ==
    IF i > Len(x) THEN <<<<>>, rem>>
    ELSE LET j == Len(x) + 1 - i
             cur == rem * Base + x[j]
             rest == BDivSmallAt(x, k, i + 1, cur % k)
         IN  <<Append(rest[1], cur \div k), rest[2]>>

BDivSmall(x, k) ==
    LET qr == BDivSmallAt(x, k, 1, 0) IN <<BTrim(qr[1]), qr[2]>>

BShl(x, k) ==
    IF k = 0 THEN x
    ELSE BShiftLimbs(BMulSmall(x, Pow2(k % LimbBits)), k \div LimbBits)

BShr(x, k) ==
    IF k = 0 THEN x
    ELSE IF k \div LimbBits >= Len(x) THEN <<>>
    ELSE BDivSmall(SubSeq(x, (k \div LimbBits) + 1, Len(x)),
                   Pow2(k % LimbBits))[1]

BBitLen(x) ==
    IF x = <<>> THEN 0
    ELSE LimbBits * (Len(x) - 1) + BitLength(x[Len(x)])

RECURSIVE BTrailingZerosFrom(_, _)
BTrailingZerosFrom(x, i) ==
    IF x[i] = 0 THEN LimbBits + BTrailingZerosFrom(x, i + 1)
    ELSE TrailingZeros(x[i])

\* for x # 0
BTrailingZeros(x) == BTrailingZerosFrom(x, 1)

BBit(x, j) ==
    (Limb(x, (j \div LimbBits) + 1) \div Pow2(j % LimbBits)) % 2

\* a float is 0 or sign * m * 2^e with m an odd natural below 2^Precision
Zero == [sign |-> 1, m |-> <<>>, e |-> 0]

Canon(sign, M, E) ==
    IF M = <<>> THEN Zero
    ELSE LET z == BTrailingZeros(M)
         IN  [sign |-> sign, m |-> BShr(M, z), e |-> E + z]

\* q, or q + 1 when the bits cut off are more than half a unit of q, or
\* exactly half with q odd
Nearest(q, half, sticky) ==
    IF half /\ (sticky \/ q[1] % 2 = 1) THEN BAdd(q, <<1>>) ELSE q

\* M without its k lowest bits, to nearest, ties to even
DropBits(M, k) ==
    IF k = 0 THEN M
    ELSE Nearest(BShr(M, k), BBit(M, k - 1) = 1, BTrailingZeros(M) < k - 1)

\* the float nearest to sign * M * 2^E, ties to the even significand
Round(sign, M, E) ==
    LET L == BBitLen(M)
        k == IF L <= Precision THEN 0 ELSE L - Precision
    IN  Canon(sign, DropBits(M, k), E + k)

Abs(x) == IF x < 0 THEN -x ELSE x

\* the float of an integer: every integer below 2^Precision is one
R(n) ==
    IF n = 0 THEN Zero
    ELSE LET z == TrailingZeros(Abs(n))
         IN  [sign |-> IF n < 0 THEN 0 - 1 ELSE 1,
              m |-> BFromNat(Abs(n) \div Pow2(z)),
              e |-> z]

RNeg(a) == IF a.m = <<>> THEN a ELSE [a EXCEPT !.sign = 0 - a.sign]

\* -1, 0 or 1 as |a| is below, equal to or above |b|
CmpAbs(a, b) ==
    IF a.m = <<>> \/ b.m = <<>>
    THEN (IF a.m = b.m THEN 0 ELSE IF a.m = <<>> THEN 0 - 1 ELSE 1)
    ELSE LET ta == BBitLen(a.m) + a.e
             tb == BBitLen(b.m) + b.e
         IN  IF ta < tb THEN 0 - 1
             ELSE IF ta > tb THEN 1
             ELSE LET e == IF a.e < b.e THEN a.e ELSE b.e
                  IN  BCmp(BShl(a.m, a.e - e), BShl(b.m, b.e - e))

Cmp(a, b) ==
    IF a.sign # b.sign THEN a.sign
    ELSE a.sign * CmpAbs(a, b)

\* sa * x * 2^e + sb * y * 2^e for naturals x and y
AddAligned(sa, x, sb, y, e) ==
    Round(IF sa = sb \/ BCmp(x, y) >= 0 THEN sa ELSE sb,
          IF sa = sb THEN BAdd(x, y)
          ELSE IF BCmp(x, y) >= 0 THEN BSub(x, y) ELSE BSub(y, x),
          e)

RAdd(a, b) ==
    IF a.m = <<>> THEN b
    ELSE IF b.m = <<>> THEN a
    ELSE LET e == IF a.e < b.e THEN a.e ELSE b.e
         IN  AddAligned(a.sign, BShl(a.m, a.e - e),
                        b.sign, BShl(b.m, b.e - e), e)

RSub(a, b) == RAdd(a, RNeg(b))

RMul(a, b) ==
    IF a.m = <<>> \/ b.m = <<>> THEN Zero
    ELSE Round(a.sign * b.sign, BMul(a.m, b.m), a.e + b.e)

\* twice the quotient qr[1], plus 1 when the remainder qr[2] is not 0:
\* the bit added last keeps an inexact quotient off the exact and tie cases
Sticky(qr) == BAdd(BShl(qr[1], 1), IF qr[2] = 0 THEN <<>> ELSE <<1>>)

\* a / k for an integer 0 < k <= Base: the quotient is taken with enough
\* bits for the rounding
RDivInt(a, k) ==
    IF a.m = <<>> THEN Zero
    ELSE LET n == Precision + 2 + BitLength(k)
         IN  Round(a.sign, Sticky(BDivSmall(BShl(a.m, n), k)), a.e - n - 1)

Pct(n) == RDivInt(R(n), 100)

RLe(a, b) == Cmp(a, b) <= 0
RLt(a, b) == Cmp(a, b) < 0
max_(a, b) == IF RLe(a, b) THEN b ELSE a
min_(a, b) == IF RLe(a, b) THEN a ELSE b
BoolNum(b) == IF b THEN R(1) ELSE R(0)

----------------------------------------------------------------------------
(* Period model *)

MonthsPerYear == 12

Years == 1..NYears
MonthNumbers == 1..MonthsPerYear

Month(y, m) == [granularity |-> "month", year |-> y, month |-> m]
Year(y) == [granularity |-> "year", year |-> y, month |-> 1]

first_month(p) == Month(p.year, 1)
this_year(p) == Year(p.year)

MonthPeriods == {Month(y, m) : y \in Years, m \in MonthNumbers}
YearPeriods == {Year(y) : y \in Years}

----------------------------------------------------------------------------
(* Population: persons grouped into households by a fixed membership map *)

Persons == 1..NPersons
Households == 1..NHouseholds

HouseholdOf(p) == ((p - 1) % NHouseholds) + 1

RECURSIVE SumUpTo(_, _, _)
SumUpTo(pv, h, n) ==
    IF n = 0 THEN R(0)
    ELSE IF HouseholdOf(n) = h THEN RAdd(SumUpTo(pv, h, n - 1), pv[n])
    ELSE SumUpTo(pv, h, n - 1)

\* household.sum(household.members(...)): per household, the sum over its members
HouseholdSum(pv) == [h \in Households |-> SumUpTo(pv, h, NPersons)]

----------------------------------------------------------------------------
(* Bracket scale evaluator: marginal rates on the part of v inside a bracket *)

Bracket(threshold, rate) == [threshold |-> threshold, rate |-> rate]

ValidScale(S) ==
    /\ Len(S) >= 1
    /\ S[1].threshold = R(0)
    /\ \A i \in 1..(Len(S) - 1) : RLt(S[i].threshold, S[i + 1].threshold)

BracketTax(S, i, v) ==
    IF RLt(S[i].threshold, v)
    THEN RMul(S[i].rate,
              RSub(IF i < Len(S) THEN min_(v, S[i + 1].threshold) ELSE v,
                   S[i].threshold))
    ELSE R(0)

RECURSIVE CalcUpTo(_, _, _)
CalcUpTo(S, n, v) ==
    IF n = 0 THEN R(0) ELSE RAdd(CalcUpTo(S, n - 1, v), BracketTax(S, n, v))

calc(S, v) == CalcUpTo(S, Len(S), v)

----------------------------------------------------------------------------
(* Parameter accessor: the parameter tree the formulas read *)

parameters(period) ==
    [general |-> [age_of_retirement |-> R(67)],
     taxes |->
        [income_tax_brackets |->
            <<Bracket(R(0), Pct(10)), Bracket(R(2000), Pct(30))>>,
         income_tax_brackets_aow |->
            <<Bracket(R(0), Pct(5)), Bracket(R(2000), Pct(30))>>,
         social_security_contribution |->
            <<Bracket(R(0), Pct(2)), Bracket(R(1000), Pct(6)),
              Bracket(R(2500), Pct(12))>>,
         tax_credits |->
            [algemene_heffingskorting_max |-> R(3000),
             algemene_heffingskorting_income_threshold |-> R(24000),
             algemene_heffingskorting_phase_out_rate |-> Pct(6),
             arbeidskorting_max |-> R(2000),
             arbeidskorting_max_income |-> R(30000),
             arbeidskorting_buildup_rate |-> Pct(25),
             arbeidskorting_phase_out_rate |-> Pct(6)],
         housing_tax |-> [rate |-> R(10), minimal_amount |-> R(200)]],
     self_employment |->
        [zelfstandigenaftrek |-> R(3700),
         mkb_winstvrijstelling_rate |-> Pct(14)]]

----------------------------------------------------------------------------
(* Variable registry: the variables of the source, their entity, definition *)
(* period, value type and whether they carry a formula                      *)

IncomeVariables ==
    {"salary", "capital_returns", "disposable_income", "omzet", "kosten",
     "winst_voor_aftrek"}
TaxVariables ==
    {"arbeidsinkomen", "algemene_heffingskorting", "arbeidskorting",
     "taxable_income", "income_tax", "social_security_contribution",
     "housing_tax"}
SelfEmploymentVariables ==
    {"urencriterium_voldaan", "zelfstandigenaftrek", "mkb_winstvrijstelling",
     "self_employment_taxable_income"}
BenefitVariables == {"pension", "household_income"}
StatsVariables == {"total_taxes"}

\* variables the formulas read that are declared outside the five files
DemographicVariables == {"age", "accommodation_size", "housing_occupancy_status"}

SourceVariables ==
    IncomeVariables \cup TaxVariables \cup SelfEmploymentVariables
        \cup BenefitVariables \cup StatsVariables \cup DemographicVariables

\* ill-formed formulas a formula author could register: they re-enter themselves
LoopVariables == {"loop_self", "loop_a", "loop_b"}

\* mutant: omzet declared on the Household entity
HouseholdVariablesWithOmzet ==
    {"disposable_income", "housing_tax", "household_income", "total_taxes",
     "accommodation_size", "housing_occupancy_status", "omzet"}

HouseholdVariables ==
    {"disposable_income", "housing_tax", "household_income", "total_taxes",
     "accommodation_size", "housing_occupancy_status"}

Entity(name) == IF name \in HouseholdVariables THEN "Household" ELSE "Person"

EntitiesOf(name) == IF Entity(name) = "Household" THEN Households ELSE Persons

DefinitionPeriod(name) ==
    IF name \in {"housing_tax", "urencriterium_voldaan"} THEN "year" ELSE "month"

PureInputs ==
    {"salary", "capital_returns", "omzet", "kosten", "urencriterium_voldaan"}
        \cup DemographicVariables

HasFormula(name) == name \notin PureInputs

\* mutant: omzet carries set_input_divide_by_period too
DivisibleWithOmzet == {"salary", "capital_returns", "omzet"}

\* set_input = set_input_divide_by_period
Divisible == {"salary", "capital_returns"}

HousingOccupancyStatus == {"owner", "tenant", "other"}

ValueType(name) ==
    CASE name = "urencriterium_voldaan" -> "bool"
      [] name = "housing_occupancy_status" -> "enum"
      [] OTHER -> "float"

TypeDefault(type) ==
    CASE type = "bool" -> FALSE
      [] type = "enum" -> "tenant"
      [] OTHER -> R(0)

DefaultVector(name) == [e \in EntitiesOf(name) |-> TypeDefault(ValueType(name))]

----------------------------------------------------------------------------
(* Dependencies: the evaluate calls each formula issues, in source order *)

Dep(name, period) == [name |-> name, period |-> period, option |-> "none"]
DepDivide(name, period) == [name |-> name, period |-> period, option |-> "DIVIDE"]

\* mutant: the deduction also reads the income it is deducted from
zelfstandigenaftrek_deps_on_income(period) ==
    <<Dep("urencriterium_voldaan", this_year(period)),
      Dep("self_employment_taxable_income", period)>>

zelfstandigenaftrek_deps(period) ==
    <<Dep("urencriterium_voldaan", this_year(period))>>

Deps(name, period) ==
    CASE name = "arbeidsinkomen" ->
            <<Dep("salary", period), Dep("self_employment_taxable_income", period)>>
      [] name = "algemene_heffingskorting" -> <<Dep("taxable_income", period)>>
      [] name = "arbeidskorting" -> <<Dep("arbeidsinkomen", period)>>
      [] name = "taxable_income" ->
            <<Dep("salary", period), Dep("capital_returns", period),
              Dep("pension", period),
              Dep("self_employment_taxable_income", period)>>
      [] name = "income_tax" ->
            <<Dep("taxable_income", period), Dep("age", period),
              Dep("algemene_heffingskorting", period),
              Dep("arbeidskorting", period)>>
      [] name = "social_security_contribution" -> <<Dep("salary", period)>>
      [] name = "housing_tax" ->
            <<Dep("accommodation_size", first_month(period)),
              Dep("housing_occupancy_status", first_month(period))>>
      [] name = "disposable_income" ->
            <<Dep("salary", period),
              Dep("self_employment_taxable_income", period),
              Dep("capital_returns", period), Dep("pension", period),
              Dep("income_tax", period), DepDivide("housing_tax", period),
              Dep("social_security_contribution", period)>>
      [] name = "winst_voor_aftrek" ->
            <<Dep("omzet", period), Dep("kosten", period)>>
      [] name = "total_taxes" ->
            <<Dep("income_tax", period),
              Dep("social_security_contribution", period),
              Dep("housing_tax", this_year(period))>>
      [] name = "zelfstandigenaftrek" -> zelfstandigenaftrek_deps(period)
      [] name = "mkb_winstvrijstelling" ->
            <<Dep("winst_voor_aftrek", period),
              Dep("zelfstandigenaftrek", period)>>
      [] name = "self_employment_taxable_income" ->
            <<Dep("winst_voor_aftrek", period),
              Dep("zelfstandigenaftrek", period),
              Dep("mkb_winstvrijstelling", period)>>
      [] name = "household_income" -> <<Dep("salary", period)>>
      [] name = "loop_self" -> <<Dep("loop_self", period)>>
      [] name = "loop_a" -> <<Dep("loop_b", period)>>
      [] name = "loop_b" -> <<Dep("loop_a", period)>>
      [] OTHER -> <<>>

----------------------------------------------------------------------------
(* Formulas.  a[i] is the vector the i-th evaluate call of the formula gave *)

arbeidsinkomen(period, a) == [p \in Persons |-> RAdd(a[1][p], a[2][p])]

algemene_heffingskorting(period, a) ==
    LET params == parameters(period).taxes.tax_credits
    IN  [p \in Persons |->
            LET annual_taxable_income == RMul(a[1][p], R(12))
                excess_income ==
                    max_(RSub(annual_taxable_income,
                              params.algemene_heffingskorting_income_threshold),
                         R(0))
                reduction ==
                    RMul(excess_income,
                         params.algemene_heffingskorting_phase_out_rate)
                annual_credit ==
                    max_(RSub(params.algemene_heffingskorting_max, reduction),
                         R(0))
            IN  RDivInt(annual_credit, 12)]

arbeidskorting(period, a) ==
    LET params == parameters(period).taxes.tax_credits
    IN  [p \in Persons |->
            LET annual_labor_income == RMul(a[1][p], R(12))
                buildup_credit ==
                    RMul(annual_labor_income, params.arbeidskorting_buildup_rate)
                excess_income ==
                    max_(RSub(annual_labor_income,
                              params.arbeidskorting_max_income), R(0))
                phase_out_reduction ==
                    RMul(excess_income, params.arbeidskorting_phase_out_rate)
                annual_credit ==
                    max_(R(0),
                         RSub(min_(buildup_credit, params.arbeidskorting_max),
                              phase_out_reduction))
            IN  RDivInt(annual_credit, 12)]

taxable_income(period, a) ==
    [p \in Persons |->
        RAdd(RAdd(RAdd(a[1][p], a[2][p]), a[3][p]), a[4][p])]

\* the gross tax as C3 states it: the scale applied to the annualised income,
\* the result divided by 12
gross_tax_annualised(period, taxable, age) ==
    LET aow_age == parameters(period).general.age_of_retirement
        scale == parameters(period).taxes.income_tax_brackets_aow
        scale_regular == parameters(period).taxes.income_tax_brackets
        annual == RMul(taxable, R(12))
    IN  RDivInt(IF RLe(aow_age, age) THEN calc(scale, annual)
                ELSE calc(scale_regular, annual), 12)

\* income_tax.formula up to the where(): the gross tax of one person
gross_tax(period, taxable, age) ==
    LET aow_age == parameters(period).general.age_of_retirement
        is_aow_age == RLe(aow_age, age)
        scale == parameters(period).taxes.income_tax_brackets_aow
        scale_regular == parameters(period).taxes.income_tax_brackets
        gross_tax_aow == calc(scale, taxable)
        gross_tax_regular == calc(scale_regular, taxable)
    IN  IF is_aow_age THEN gross_tax_aow ELSE gross_tax_regular

\* mutant: the credits subtracted without the clamp at 0
income_tax_unclamped(period, a) ==
    [p \in Persons |->
        RSub(RSub(gross_tax(period, a[1][p], a[2][p]), a[3][p]), a[4][p])]

income_tax(period, a) ==
    [p \in Persons |->
        max_(RSub(RSub(gross_tax(period, a[1][p], a[2][p]), a[3][p]), a[4][p]),
             R(0))]

\* mutant: the scale applied to the absolute value of the salary
social_security_contribution_of_abs(period, a) ==
    LET scale == parameters(period).taxes.social_security_contribution
    IN  [p \in Persons |->
            calc(scale, IF RLt(a[1][p], R(0)) THEN RSub(R(0), a[1][p])
                        ELSE a[1][p])]

social_security_contribution(period, a) ==
    LET scale == parameters(period).taxes.social_security_contribution
    IN  [p \in Persons |-> calc(scale, a[1][p])]

housing_tax(period, a) ==
    LET tax_params == parameters(period).taxes.housing_tax
    IN  [h \in Households |->
            LET tax_amount ==
                    max_(RMul(a[1][h], tax_params.rate),
                         tax_params.minimal_amount)
                tenant == a[2][h] = "tenant"
                owner == a[2][h] = "owner"
            IN  RMul(BoolNum(owner \/ tenant), tax_amount)]

\* mutant: the social security contribution is not subtracted
disposable_income_keeps_contribution(period, a) ==
    LET salary == HouseholdSum(a[1])
        se_income == HouseholdSum(a[2])
        capital_returns == HouseholdSum(a[3])
        pension == HouseholdSum(a[4])
        income_tax_sum == HouseholdSum(a[5])
        housing == a[6]
    IN  [h \in Households |->
            RSub(RSub(RAdd(RAdd(RAdd(salary[h], se_income[h]),
                                capital_returns[h]),
                           pension[h]),
                      income_tax_sum[h]),
                 housing[h])]

disposable_income(period, a) ==
    LET salary == HouseholdSum(a[1])
        se_income == HouseholdSum(a[2])
        capital_returns == HouseholdSum(a[3])
        pension == HouseholdSum(a[4])
        income_tax_sum == HouseholdSum(a[5])
        housing == a[6]
        contribution == HouseholdSum(a[7])
    IN  [h \in Households |->
            RSub(RSub(RSub(RAdd(RAdd(RAdd(salary[h], se_income[h]),
                                     capital_returns[h]),
                                pension[h]),
                           income_tax_sum[h]),
                      housing[h]),
                 contribution[h])]

winst_voor_aftrek(period, a) == [p \in Persons |-> RSub(a[1][p], a[2][p])]

\* mutant: the yearly housing tax added undivided
total_taxes_housing_yearly(yearly) == [h \in Households |-> yearly[h]]

\* the housing-tax term of total_taxes: household("housing_tax", this_year) / 12
total_taxes_housing(yearly) == [h \in Households |-> RDivInt(yearly[h], 12)]

total_taxes(period, a) ==
    LET income_tax_sum == HouseholdSum(a[1])
        contribution == HouseholdSum(a[2])
        housing == total_taxes_housing(a[3])
    IN  [h \in Households |->
            RAdd(RAdd(income_tax_sum[h], contribution[h]), housing[h])]

zelfstandigenaftrek(period, a) ==
    LET annual_deduction == parameters(period).self_employment.zelfstandigenaftrek
        monthly_deduction == RDivInt(annual_deduction, 12)
    IN  [p \in Persons |-> RMul(BoolNum(a[1][p]), monthly_deduction)]

mkb_winstvrijstelling(period, a) ==
    LET rate == parameters(period).self_employment.mkb_winstvrijstelling_rate
    IN  [p \in Persons |->
            RMul(max_(RSub(a[1][p], a[2][p]), R(0)), rate)]

self_employment_taxable_income(period, a) ==
    [p \in Persons |->
        max_(RSub(RSub(a[1][p], a[2][p]), a[3][p]), R(0))]

pension(period, a) == [p \in Persons |-> R(0)]

household_income(period, a) == HouseholdSum(a[1])

Formula(name, period, a) ==
    CASE name = "arbeidsinkomen" -> arbeidsinkomen(period, a)
      [] name = "algemene_heffingskorting" -> algemene_heffingskorting(period, a)
      [] name = "arbeidskorting" -> arbeidskorting(period, a)
      [] name = "taxable_income" -> taxable_income(period, a)
      [] name = "income_tax" -> income_tax(period, a)
      [] name = "social_security_contribution" ->
            social_security_contribution(period, a)
      [] name = "housing_tax" -> housing_tax(period, a)
      [] name = "disposable_income" -> disposable_income(period, a)
      [] name = "winst_voor_aftrek" -> winst_voor_aftrek(period, a)
      [] name = "total_taxes" -> total_taxes(period, a)
      [] name = "zelfstandigenaftrek" -> zelfstandigenaftrek(period, a)
      [] name = "mkb_winstvrijstelling" -> mkb_winstvrijstelling(period, a)
      [] name = "self_employment_taxable_income" ->
            self_employment_taxable_income(period, a)
      [] name = "pension" -> pension(period, a)
      [] name = "household_income" -> household_income(period, a)
      [] OTHER -> a[1]

----------------------------------------------------------------------------
(* Caller-supplied inputs: the cases the caller may hand to a run *)

Key(name, period) == [name |-> name, period |-> period]

SuppliedMonthPeriods ==
    {Month(y, m) : y \in Years, m \in 1..SuppliedMonths} \cap MonthPeriods

Odd(e) == e % 2 = 1

SalaryKeys(mode) ==
    CASE mode = "month" -> {Key("salary", q) : q \in SuppliedMonthPeriods}
      [] mode = "year" -> {Key("salary", q) : q \in YearPeriods}
      [] OTHER -> {}

BusinessKeys(mode) ==
    CASE mode = "month" ->
            {Key(n, q) : n \in {"omzet", "kosten"}, q \in SuppliedMonthPeriods}
                \cup {Key("urencriterium_voldaan", q) : q \in YearPeriods}
      [] mode = "year" ->
            {Key(n, q) : n \in {"omzet", "kosten"}, q \in YearPeriods}
      [] OTHER -> {}

OtherKeys(mode) ==
    CASE mode = "a" ->
            {Key(n, q) : n \in {"capital_returns", "pension", "age"},
                         q \in MonthPeriods}
                \cup {Key(n, Month(y, 1)) :
                        n \in {"accommodation_size", "housing_occupancy_status"},
                        y \in Years}
      [] mode = "b" ->
            {Key("capital_returns", q) : q \in YearPeriods}
                \cup {Key("age", q) : q \in MonthPeriods}
                \cup {Key("accommodation_size", Month(y, 1)) : y \in Years}
      [] OTHER -> {}

InputValue(k, other) ==
    LET yearly == k.period.granularity = "year"
    IN  CASE k.name = "salary" ->
                [p \in Persons |->
                    IF yearly THEN (IF Odd(p) THEN R(30000) ELSE R(10000))
                    ELSE (IF Odd(p) THEN R(3000) ELSE R(600))]
          [] k.name = "omzet" ->
                [p \in Persons |->
                    IF yearly THEN R(48000)
                    ELSE (IF Odd(p) THEN R(4000) ELSE R(1000))]
          [] k.name = "kosten" ->
                [p \in Persons |->
                    IF yearly THEN R(18000)
                    ELSE (IF Odd(p) THEN R(1500) ELSE R(1200))]
          [] k.name = "urencriterium_voldaan" -> [p \in Persons |-> Odd(p)]
          [] k.name = "capital_returns" ->
                [p \in Persons |->
                    IF yearly THEN R(1000)
                    ELSE (IF Odd(p) THEN R(0 - 500) ELSE R(250))]
          [] k.name = "pension" -> [p \in Persons |-> R(500)]
          [] k.name = "age" ->
                [p \in Persons |->
                    IF other = "a" /\ Odd(p) THEN R(70) ELSE R(40)]
          [] k.name = "accommodation_size" ->
                [h \in Households |-> IF other = "a" THEN R(100 * h) ELSE R(10)]
          [] k.name = "housing_occupancy_status" ->
                [h \in Households |-> IF Odd(h) THEN "owner" ELSE "other"]

InputsFor(salaryMode, businessMode, otherMode) ==
    [k \in SalaryKeys(salaryMode) \cup BusinessKeys(businessMode)
            \cup OtherKeys(otherMode) |-> InputValue(k, otherMode)]

\* <<salary, business, other>>: which inputs the caller supplies, and at which
\* granularity
InputModes ==
    {<<"none", "none", "none">>, <<"none", "none", "a">>,
     <<"month", "month", "a">>,
     <<"year", "none", "b">>, <<"none", "year", "none">>,
     <<"none", "month", "a">>, <<"month", "none", "none">>,
     <<"year", "month", "none">>, <<"year", "year", "b">>}

InputCases == {InputsFor(c[1], c[2], c[3]) : c \in InputModes}

----------------------------------------------------------------------------
(* The dependency evaluator *)

NoOutcome == [kind |-> "none"]
Value(k, v) == [kind |-> "value", key |-> k, value |-> v]
Error(e, k) == [kind |-> "error", error |-> e, key |-> k]

Top == stack[Len(stack)]

\* mutant: no pair is ever seen as pending
PendingNever(k) == FALSE

Pending(k) == \E i \in 1..Len(stack) : stack[i].key = k

\* a Year-defined variable read at a month with the DIVIDE option is evaluated
\* at the enclosing year and its value divided by 12
Divides(dep) ==
    /\ dep.option = "DIVIDE"
    /\ DefinitionPeriod(dep.name) = "year"
    /\ dep.period.granularity = "month"

EvalKey(dep) ==
    IF Divides(dep) THEN Key(dep.name, this_year(dep.period))
    ELSE Key(dep.name, dep.period)

Delivered(dep, v) ==
    IF Divides(dep) THEN [e \in DOMAIN v |-> RDivInt(v[e], MonthsPerYear)] ELSE v

\* names and periods the caller asks for
RequestNames == SourceVariables \cup LoopVariables \cup {"not_registered"}

\* a variable is requested at its definition period: the run's month, or the
\* year of that month
RequestPeriod(name) ==
    IF DefinitionPeriod(name) = "year" THEN this_year(runPeriod) ELSE runPeriod

CallerDeps ==
    IF outcome.kind # "error" /\ requests < MaxRequests
    THEN {Dep(n, RequestPeriod(n)) : n \in asked}
    ELSE {}

\* the evaluate call about to be made: by the caller, or by the innermost
\* pending formula
CurrentDeps ==
    IF stack = <<>> THEN CallerDeps
    ELSE IF Len(Top.args) < Len(Deps(Top.key.name, Top.key.period))
         THEN {Deps(Top.key.name, Top.key.period)[Len(Top.args) + 1]}
         ELSE {}

\* step 3: the value of a formula-less variable, or the error reading it gives
ReadInput(k) ==
    IF k \in DOMAIN inputs THEN Value(k, inputs[k])
    ELSE IF /\ k.period.granularity = "month"
            /\ Key(k.name, this_year(k.period)) \in DOMAIN inputs
         THEN IF k.name \in Divisible
              THEN Value(k, [e \in EntitiesOf(k.name) |->
                                RDivInt(inputs[Key(k.name, this_year(k.period))][e],
                                        MonthsPerYear)])
              ELSE Error("PeriodMismatch", k)
         ELSE Value(k, DefaultVector(k.name))

\* hand the value of dep to whoever asked: the caller, or the innermost formula
Deliver(stk, dep, v) ==
    IF stk = <<>>
    THEN /\ stack' = <<>>
         /\ outcome' = Value(EvalKey(dep), Delivered(dep, v))
    ELSE /\ stack' = [stk EXCEPT ![Len(stk)].args =
                                    Append(@, Delivered(dep, v))]
         /\ outcome' = outcome

Abort(e, k) ==
    /\ stack' = <<>>
    /\ outcome' = Error(e, k)

Counted == IF stack = <<>> THEN requests + 1 ELSE requests

\* mutant: the cache is never consulted
CachedNever(k) == FALSE

Cached(k) == k \in DOMAIN cache

\* step 1: the pair is in the cache
EvaluateCached ==
    \E dep \in CurrentDeps :
        /\ Cached(EvalKey(dep))
        /\ Deliver(stack, dep, cache[EvalKey(dep)])
        /\ requests' = Counted
        /\ UNCHANGED <<registry, inputs, runPeriod, asked, cache, calls, calcVars>>

\* step 2: the name is not registered
EvaluateUnknown ==
    \E dep \in CurrentDeps :
        /\ ~Cached(EvalKey(dep))
        /\ dep.name \notin registry
        /\ Abort("UnknownVariable", EvalKey(dep))
        /\ requests' = Counted
        /\ UNCHANGED <<registry, inputs, runPeriod, asked, cache, calls, calcVars>>

\* step 3: a formula-less variable is read from the inputs and cached
EvaluateInput ==
    \E dep \in CurrentDeps :
        LET k == EvalKey(dep)
            got == ReadInput(k)
        IN  /\ ~Cached(k)
            /\ dep.name \in registry
            /\ ~HasFormula(dep.name)
            /\ got.kind = "value"
            /\ cache' = cache @@ (k :> got.value)
            /\ Deliver(stack, dep, got.value)
            /\ requests' = Counted
            /\ UNCHANGED <<registry, inputs, runPeriod, asked, calls, calcVars>>

EvaluateInputMismatch ==
    \E dep \in CurrentDeps :
        LET k == EvalKey(dep)
            got == ReadInput(k)
        IN  /\ ~Cached(k)
            /\ dep.name \in registry
            /\ ~HasFormula(dep.name)
            /\ got.kind = "error"
            /\ Abort(got.error, k)
            /\ requests' = Counted
            /\ UNCHANGED <<registry, inputs, runPeriod, asked, cache, calls, calcVars>>

\* step 4, guard: the pair is already being computed
EvaluateCyclic ==
    \E dep \in CurrentDeps :
        LET k == EvalKey(dep)
        IN  /\ ~Cached(k)
            /\ dep.name \in registry
            /\ HasFormula(dep.name)
            /\ Pending(k)
            /\ Abort("CyclicDependency", k)
            /\ requests' = Counted
            /\ UNCHANGED <<registry, inputs, runPeriod, asked, cache, calls, calcVars>>

\* step 4: the formula is invoked; its own evaluate calls follow
EvaluateFormula ==
    \E dep \in CurrentDeps :
        LET k == EvalKey(dep)
        IN  /\ ~Cached(k)
            /\ dep.name \in registry
            /\ HasFormula(dep.name)
            /\ ~Pending(k)
            /\ stack' = Append(stack, [key |-> k, args |-> <<>>, dep |-> dep])
            /\ calls' = IF k \in DOMAIN calls
                        THEN [calls EXCEPT ![k] = @ + 1]
                        ELSE calls @@ (k :> 1)
            /\ requests' = Counted
            /\ UNCHANGED <<registry, inputs, runPeriod, asked, cache, outcome, calcVars>>

\* the value v of the formula on top of the stack is cached and handed to
\* the evaluate call that invoked the formula
Return(v) ==
    /\ cache' = cache @@ (Top.key :> v)
    /\ Deliver(SubSeq(stack, 1, Len(stack) - 1), Top.dep, v)

\* step 5: the formula returns; the result is cached and handed back
FormulaReturns ==
    /\ stack # <<>>
    /\ Len(Top.args) = Len(Deps(Top.key.name, Top.key.period))
    /\ Return(Formula(Top.key.name, Top.key.period, Top.args))
    /\ UNCHANGED <<registry, inputs, runPeriod, asked, calls, requests, calcVars>>

\* the run ends: its cache is discarded; the next run starts empty
EndRun ==
    /\ stack = <<>>
    /\ requests > 0
    /\ cache' = <<>>
    /\ calls' = <<>>
    /\ outcome' = NoOutcome
    /\ requests' = 0
    /\ UNCHANGED <<registry, inputs, runPeriod, asked, stack, calcVars>>

CalcIdle ==
    /\ scaleIn = <<>>
    /\ valsIn = <<>>
    /\ calcOut = NoOutcome

Init ==
    /\ \/ /\ registry = SourceVariables
          /\ inputs \in InputCases
       \/ /\ registry = SourceVariables \cup LoopVariables
          /\ inputs = InputsFor("none", "none", "none")
    /\ runPeriod \in MonthPeriods
    /\ asked = RequestNames
    /\ cache = <<>>
    /\ stack = <<>>
    /\ outcome = NoOutcome
    /\ calls = <<>>
    /\ requests = 0
    /\ CalcIdle

Next ==
    \/ EvaluateCached
    \/ EvaluateUnknown
    \/ EvaluateInput
    \/ EvaluateInputMismatch
    \/ EvaluateCyclic
    \/ EvaluateFormula
    \/ FormulaReturns
    \/ EndRun

Spec == Init /\ [][Next]_vars

----------------------------------------------------------------------------
(* A run that goes through the months of a year: the caller evaluates an    *)
(* input variable, or the profit formula that reads two of them, month      *)
(* after month, the cache of the run keeping every month                    *)

MonthInputs == {"salary", "capital_returns", "omzet", "kosten"}

\* the caller has had its values of runPeriod and goes on to the next month
NextMonth ==
    /\ stack = <<>>
    /\ requests > 0
    /\ outcome.kind = "value"
    /\ runPeriod.month < MonthsPerYear
    /\ runPeriod' = Month(runPeriod.year, runPeriod.month + 1)
    /\ requests' = 0
    /\ UNCHANGED <<registry, inputs, asked, cache, stack, outcome, calls,
                   calcVars>>

InitYear ==
    /\ registry = SourceVariables
    /\ \/ /\ asked \in {{n} : n \in MonthInputs \cup {"winst_voor_aftrek"}}
          /\ inputs \in InputCases
       \/ /\ asked = {"capital_returns", "kosten"}
          /\ inputs = InputsFor("year", "year", "b")
    /\ runPeriod \in {Month(y, 1) : y \in Years}
    /\ cache = <<>>
    /\ stack = <<>>
    /\ outcome = NoOutcome
    /\ calls = <<>>
    /\ requests = 0
    /\ CalcIdle

NextYear ==
    \/ EvaluateCached
    \/ EvaluateInput
    \/ EvaluateInputMismatch
    \/ EvaluateFormula
    \/ FormulaReturns
    \/ NextMonth
    \/ EndRun

SpecYear == InitYear /\ [][NextYear]_vars

----------------------------------------------------------------------------
(* The bracket scale evaluator on its own: calc applied to scales and values *)
(* drawn from bounded sets                                                  *)

ThresholdSet == {R(1000 * k) : k \in 0..MaxThreshold}
RateSet == {Pct(0 - 10), Pct(10), Pct(30)}
ValueSet == {R(500 * k) : k \in (0 - 1)..MaxValueSteps}

ScaleSet ==
    UNION {[1..n -> {Bracket(t, r) : t \in ThresholdSet, r \in RateSet}] :
            n \in 1..MaxBrackets}

EvalIdle ==
    /\ registry = SourceVariables
    /\ inputs = <<>>
    /\ cache = <<>>
    /\ stack = <<>>
    /\ outcome = NoOutcome
    /\ calls = <<>>
    /\ requests = 0
    /\ runPeriod = Month(1, 1)
    /\ asked = RequestNames

InitCalc ==
    /\ EvalIdle
    /\ scaleIn \in ScaleSet
    /\ valsIn \in ValueSet \X ValueSet
    /\ calcOut = NoOutcome

\* the salaries of the persons, taken in turn from the pair of values
SalaryPair == [p \in Persons |-> IF Odd(p) THEN valsIn[1] ELSE valsIn[2]]

\* calc on a well-formed scale; the social security contribution of the pair
ApplyCalc ==
    /\ calcOut = NoOutcome
    /\ ValidScale(scaleIn)
    /\ calcOut' =
        [kind |-> "value",
         low |-> calc(scaleIn, valsIn[1]),
         high |-> calc(scaleIn, valsIn[2]),
         contribution |->
            social_security_contribution(runPeriod, <<SalaryPair>>)]
    /\ UNCHANGED <<evalVars, scaleIn, valsIn>>

\* calc rejects a scale whose thresholds do not start at 0 or do not increase
RejectScale ==
    /\ calcOut = NoOutcome
    /\ ~ValidScale(scaleIn)
    /\ calcOut' = [kind |-> "error", error |-> "InvalidScale"]
    /\ UNCHANGED <<evalVars, scaleIn, valsIn>>

NextCalc == ApplyCalc \/ RejectScale

SpecCalc == InitCalc /\ [][NextCalc]_vars

----------------------------------------------------------------------------
(* Properties *)

CachedValue(name, q) == cache[Key(name, q)]

IsCached(name, q) == Key(name, q) \in DOMAIN cache

Frames == {stack[i] : i \in 1..Len(stack)}

\* housing_tax(y) / 12 for the year of period q
MonthlyHousingTax(q) ==
    [h \in Households |->
        RDivInt(CachedValue("housing_tax", this_year(q))[h], 12)]

\* the income-tax scale that applies to a person of the given age
ScaleFor(q, age) ==
    IF RLe(parameters(q).general.age_of_retirement, age)
    THEN parameters(q).taxes.income_tax_brackets_aow
    ELSE parameters(q).taxes.income_tax_brackets

MemberSum(name, q) == HouseholdSum(CachedValue(name, q))

(* C1: in every month of the year, the housing-tax amount a Month formula    *)
(* consumes is housing_tax(year)/12: the value disposable_income receives    *)
(* with DIVIDE, the term total_taxes builds from the yearly value, and the   *)
(* amount that ends up in either result.                                     *)
C1_HousingTaxMonthlyShare ==
    /\ \A f \in Frames :
        /\ (f.key.name = "disposable_income" /\ Len(f.args) >= 6) =>
                /\ IsCached("housing_tax", this_year(f.key.period))
                /\ f.args[6] = MonthlyHousingTax(f.key.period)
        /\ (f.key.name = "total_taxes" /\ Len(f.args) >= 3) =>
                /\ IsCached("housing_tax", this_year(f.key.period))
                /\ total_taxes_housing(f.args[3]) = MonthlyHousingTax(f.key.period)
    /\ \A q \in MonthPeriods :
        /\ IsCached("total_taxes", q) =>
            \A h \in Households :
                CachedValue("total_taxes", q)[h] =
                    RAdd(RAdd(MemberSum("income_tax", q)[h],
                              MemberSum("social_security_contribution", q)[h]),
                         MonthlyHousingTax(q)[h])
        /\ IsCached("disposable_income", q) =>
            \A h \in Households :
                CachedValue("disposable_income", q)[h] =
                    RSub(RSub(RSub(RAdd(RAdd(RAdd(
                        MemberSum("salary", q)[h],
                        MemberSum("self_employment_taxable_income", q)[h]),
                        MemberSum("capital_returns", q)[h]),
                        MemberSum("pension", q)[h]),
                        MemberSum("income_tax", q)[h]),
                        MonthlyHousingTax(q)[h]),
                        MemberSum("social_security_contribution", q)[h])

\* in December, disposable_income has received its housing share, a non-zero
\* amount, in a run in which total_taxes of the same month was computed too
C1_Witness ==
    \E f \in Frames :
        /\ f.key.name = "disposable_income"
        /\ f.key.period.month = MonthsPerYear
        /\ Len(f.args) >= 6
        /\ f.args[6][1] # R(0)
        /\ IsCached("total_taxes", f.key.period)

(* C2: for every person and month, income_tax is                            *)
(* max(gross_tax - algemene_heffingskorting - arbeidskorting, 0), gross_tax  *)
(* being the AOW scale or the regular scale applied to taxable_income; it is *)
(* never negative.                                                           *)
C2_IncomeTaxClamped ==
    \A q \in MonthPeriods :
        IsCached("income_tax", q) =>
            \A p \in Persons :
                LET taxable == CachedValue("taxable_income", q)[p]
                    age == CachedValue("age", q)[p]
                    gross == calc(ScaleFor(q, age), taxable)
                    ahk == CachedValue("algemene_heffingskorting", q)[p]
                    ak == CachedValue("arbeidskorting", q)[p]
                    tax == CachedValue("income_tax", q)[p]
                IN  /\ tax = max_(RSub(RSub(gross, ahk), ak), R(0))
                    /\ RLe(R(0), tax)

\* income_tax was computed for a person with a negative taxable income and for
\* a person whose credits exceed a positive gross tax
C2_Witness ==
    \E q \in MonthPeriods :
        /\ IsCached("income_tax", q)
        /\ \E p \in Persons :
            /\ RLt(CachedValue("taxable_income", q)[p], R(0))
            /\ CachedValue("income_tax", q)[p] = R(0)
        /\ \E p \in Persons :
            /\ RLt(R(0), CachedValue("taxable_income", q)[p])
            /\ RLt(R(0), CachedValue("algemene_heffingskorting", q)[p])
            /\ CachedValue("income_tax", q)[p] = R(0)

(* C3 as stated: the gross tax income_tax starts from is the scale applied   *)
(* to 12 times the monthly taxable income, divided by 12.                    *)
C3_AnnualisedGrossTax ==
    \A q \in MonthPeriods :
        IsCached("income_tax", q) =>
            \A p \in Persons :
                LET taxable == CachedValue("taxable_income", q)[p]
                    age == CachedValue("age", q)[p]
                IN  gross_tax(q, taxable, age) =
                        RDivInt(calc(ScaleFor(q, age), RMul(taxable, R(12))), 12)

(* C3, what the formula computes instead: the scale applied to the monthly  *)
(* taxable income itself, with no annualisation: for a taxable income of     *)
(* 3000 and brackets [(0, 0.10), (2000, 0.30)] it is 2000*0.10 + 1000*0.30   *)
(* = 500, where the annualised computation gives 10400/12.                   *)
C3_MonthlyGrossTax ==
    \A q \in MonthPeriods :
        IsCached("income_tax", q) =>
            \A p \in Persons :
                LET taxable == CachedValue("taxable_income", q)[p]
                    age == CachedValue("age", q)[p]
                    ahk == CachedValue("algemene_heffingskorting", q)[p]
                    ak == CachedValue("arbeidskorting", q)[p]
                IN  /\ gross_tax(q, taxable, age) = calc(ScaleFor(q, age), taxable)
                    /\ (taxable = R(3000) /\ RLt(age, R(67))) =>
                            gross_tax(q, taxable, age) = R(500)
                    /\ RLt(R(0), CachedValue("income_tax", q)[p]) =>
                            CachedValue("income_tax", q)[p] =
                                RSub(RSub(gross_tax(q, taxable, age), ahk), ak)

\* income_tax was computed for a person below AOW age with taxable income 3000
C3_Witness ==
    \E q \in MonthPeriods :
        /\ IsCached("income_tax", q)
        /\ \E p \in Persons :
            /\ CachedValue("taxable_income", q)[p] = R(3000)
            /\ RLt(CachedValue("age", q)[p], R(67))
            /\ RLt(R(0), CachedValue("income_tax", q)[p])

(* C4 as stated: a pension value the caller supplies for a month is what   *)
(* evaluating pension gives for that month; only without a supplied value    *)
(* is it 0.                                                                  *)
C4_SuppliedPensionReturned ==
    \A q \in MonthPeriods :
        IsCached("pension", q) =>
            CachedValue("pension", q) =
                IF Key("pension", q) \in DOMAIN inputs
                THEN inputs[Key("pension", q)]
                ELSE [p \in Persons |-> R(0)]

\* a supplied value of the pair, at its own period or at the year of its month
Supplied(k) ==
    \/ k \in DOMAIN inputs
    \/ /\ k.period.granularity = "month"
       /\ Key(k.name, this_year(k.period)) \in DOMAIN inputs

\* only a Year-level value was supplied for a pair asked at a month
YearOnly(k) ==
    /\ k.period.granularity = "month"
    /\ k \notin DOMAIN inputs
    /\ Key(k.name, this_year(k.period)) \in DOMAIN inputs

(* C5: within a run the formula of a (name, period) pair is invoked at most  *)
(* once; an evaluate of a pair that is in the cache invokes nothing and      *)
(* gives the stored vector; the cache is empty when a run starts and an      *)
(* entry, once written, stays as it is until the run ends.                   *)
C5_Memoized ==
    /\ requests = 0 => DOMAIN cache = {}
    /\ [][/\ \A k \in DOMAIN calls' : calls'[k] <= 1
          /\ requests' = 0 => DOMAIN cache' = {}
          /\ requests' # 0 =>
                \A k \in DOMAIN cache :
                    k \in DOMAIN cache' /\ cache'[k] = cache[k]
          /\ \A dep \in CurrentDeps :
                (stack # <<>> /\ EvalKey(dep) \in DOMAIN cache) =>
                    /\ calls' = calls
                    /\ cache' = cache
                    /\ stack' = [stack EXCEPT ![Len(stack)].args =
                                    Append(@, Delivered(dep, cache[EvalKey(dep)]))]
          /\ (/\ stack = <<>>
              /\ stack' = <<>>
              /\ requests' = requests + 1
              /\ \E k \in DOMAIN cache :
                    k.name = outcome'.key.name /\ k.period = outcome'.key.period)
                => /\ outcome' = Value(outcome'.key, cache[outcome'.key])
                   /\ calls' = calls
                   /\ cache' = cache
         ]_vars

\* the caller asked for taxable_income after income_tax had been computed: the
\* pair had been asked for by income_tax and by algemene_heffingskorting too,
\* and its formula ran once
C5_Witness ==
    /\ requests = 2
    /\ stack = <<>>
    /\ outcome.kind = "value"
    /\ outcome.key.name = "taxable_income"
    /\ IsCached("income_tax", outcome.key.period)
    /\ calls[outcome.key] = 1

NoRepeat ==
    \A i, j \in 1..Len(stack) : i # j => stack[i].key # stack[j].key

(* C6: when the pair about to be evaluated is still being computed, the     *)
(* evaluator fails with CyclicDependency and the run is aborted: no pair is  *)
(* ever twice among the pending ones, no value is stored or returned for     *)
(* the pair, and nothing but the end of the run follows.                     *)
C6_CyclicDependencyAborts ==
    /\ NoRepeat
    /\ [][/\ NoRepeat'
          /\ \A dep \in CurrentDeps :
                (/\ stack # <<>>
                 /\ \E i \in 1..Len(stack) : stack[i].key = EvalKey(dep))
                => /\ outcome' = Error("CyclicDependency", EvalKey(dep))
                   /\ stack' = <<>>
                   /\ cache' = cache
                   /\ EvalKey(dep) \notin DOMAIN cache'
          /\ outcome.kind = "error" =>
                /\ requests' = 0
                /\ stack' = <<>>
                /\ outcome' = NoOutcome
         ]_vars

\* loop_a asked for loop_b, which asked for loop_a again: the run was aborted
C6_Witness ==
    /\ outcome = Error("CyclicDependency", Key("loop_a", runPeriod))
    /\ stack = <<>>
    /\ Key("loop_a", runPeriod) \notin DOMAIN cache
    /\ Key("loop_b", runPeriod) \notin DOMAIN cache

RAbs(a) == [a EXCEPT !.sign = 1]

\* 2^-48: some thirty times the relative error of one rounding, 2^-53
RoundingTolerance == [sign |-> 1, m |-> <<1>>, e |-> 0 - 48]

\* x and y differ by no more than the tolerance times scale
Within(x, y, scale) ==
    RLe(RAbs(RSub(x, y)), RMul(RoundingTolerance, RAbs(scale)))

AllMonthsCached(name, y) ==
    \A m \in MonthNumbers : Key(name, Month(y, m)) \in DOMAIN cache

\* the values of the first n months of year y, added up in calendar order
RECURSIVE SumOfMonths(_, _, _, _)
SumOfMonths(name, y, e, n) ==
    IF n = 0 THEN R(0)
    ELSE RAdd(SumOfMonths(name, y, e, n - 1),
              cache[Key(name, Month(y, n))][e])

\* every month of year y of the variable was read from the yearly value
YearRead(name, y) ==
    /\ AllMonthsCached(name, y)
    /\ \A m \in MonthNumbers : YearOnly(Key(name, Month(y, m)))

DividedByTwelve ==
    \A k \in DOMAIN cache :
        (k.name \in MonthInputs /\ YearOnly(k)) =>
            /\ k.name \in {"salary", "capital_returns"}
            /\ \A e \in Persons :
                cache[k][e] =
                    RDivInt(inputs[Key(k.name, this_year(k.period))][e], 12)

SourcePureInputs ==
    {"salary", "capital_returns", "omzet", "kosten", "urencriterium_voldaan"}

(* C8: a formula-less variable of the source evaluated at a period for      *)
(* which no value was supplied is the type default for every entity: a       *)
(* vector over the persons, 0.0 for the float inputs and false for           *)
(* urencriterium_voldaan.                                                    *)
C8_DefaultWhenNotSupplied ==
    \A k \in DOMAIN cache :
        (k.name \in SourcePureInputs /\ ~Supplied(k)) =>
            /\ DOMAIN cache[k] = Persons
            /\ \A e \in DOMAIN cache[k] :
                cache[k][e] =
                    IF k.name = "urencriterium_voldaan" THEN FALSE ELSE R(0)
            /\ (outcome.kind = "value" /\ outcome.key = k) =>
                    outcome.value = cache[k]

\* omzet of a month and urencriterium_voldaan of the year were evaluated with
\* nothing supplied for them
C8_Witness ==
    /\ IsCached("omzet", runPeriod)
    /\ ~Supplied(Key("omzet", runPeriod))
    /\ IsCached("urencriterium_voldaan", this_year(runPeriod))
    /\ ~Supplied(Key("urencriterium_voldaan", this_year(runPeriod)))
    /\ outcome.kind = "value"
    /\ outcome.key.name = "omzet"

NonNegativeRates(S) == \A i \in 1..Len(S) : RLe(R(0), S[i].rate)

ContributionMonotone ==
    \A p, r \in Persons :
        /\ (RLe(SalaryPair[p], SalaryPair[r]) /\ RLe(R(0), SalaryPair[r])) =>
                RLe(calcOut.contribution[p], calcOut.contribution[r])
        /\ RLe(SalaryPair[p], R(0)) => calcOut.contribution[p] = R(0)

ZeroBelowZero ==
    /\ RLe(valsIn[1], R(0)) => calcOut.low = R(0)
    /\ RLe(valsIn[2], R(0)) => calcOut.high = R(0)

(* C9 as stated: for every scale with first threshold 0 and strictly        *)
(* increasing thresholds, and v1 <= v2 with v2 >= 0, calc(S, v1) <=          *)
(* calc(S, v2), and calc(S, v) = 0 for v <= 0; the social security           *)
(* contribution is 0 for a salary of 0 or less and does not decrease with    *)
(* the salary.                                                               *)
C9_CalcMonotoneAnyRates ==
    calcOut.kind = "value" =>
        /\ (RLe(valsIn[1], valsIn[2]) /\ RLe(R(0), valsIn[2])) =>
                RLe(calcOut.low, calcOut.high)
        /\ ZeroBelowZero
        /\ ContributionMonotone

(* C9 amended: the same, for scales whose marginal rates are all >= 0 (the  *)
(* social security scale is one); calc(S, v) = 0 for v <= 0 holds for any    *)
(* rates.                                                                    *)
C9_CalcMonotone ==
    calcOut.kind = "value" =>
        /\ (/\ NonNegativeRates(scaleIn)
            /\ RLe(valsIn[1], valsIn[2])
            /\ RLe(R(0), valsIn[2])) =>
                RLe(calcOut.low, calcOut.high)
        /\ ZeroBelowZero
        /\ ContributionMonotone

\* calc was applied with a two-bracket scale of positive rates to a negative
\* value and to a value above the second threshold
C9_Witness ==
    /\ calcOut.kind = "value"
    /\ Len(scaleIn) = 2
    /\ NonNegativeRates(scaleIn)
    /\ RLt(valsIn[1], R(0))
    /\ RLt(scaleIn[2].threshold, valsIn[2])
    /\ calcOut.low = R(0)
    /\ RLt(R(0), calcOut.high)
    /\ RLt(R(0), calcOut.contribution[2])

\* the members' incomes of household h in month q, the four household sums
\* added in the order disposable_income adds them
IncomeSum(q, h) ==
    RAdd(RAdd(RAdd(MemberSum("salary", q)[h],
                   MemberSum("self_employment_taxable_income", q)[h]),
              MemberSum("capital_returns", q)[h]),
         MemberSum("pension", q)[h])

\* the magnitudes of the four income sums and of the three taxes, added up
IncomeAndTaxMagnitude(q, h) ==
    RAdd(RAdd(RAdd(RAdd(RAdd(RAdd(
        RAbs(MemberSum("salary", q)[h]),
        RAbs(MemberSum("self_employment_taxable_income", q)[h])),
        RAbs(MemberSum("capital_returns", q)[h])),
        RAbs(MemberSum("pension", q)[h])),
        RAbs(MemberSum("income_tax", q)[h])),
        RAbs(MemberSum("social_security_contribution", q)[h])),
        RAbs(MonthlyHousingTax(q)[h]))

BothCached(q) == IsCached("disposable_income", q) /\ IsCached("total_taxes", q)

AllPeriods == MonthPeriods \cup YearPeriods

\* the (name, period) pairs of the registered variables
RegisteredKeys == {Key(n, q) : n \in registry, q \in AllPeriods}

\* the pairs the formula of k evaluates
Reads(k) ==
    IF HasFormula(k.name)
    THEN {EvalKey(Deps(k.name, k.period)[i]) :
            i \in DOMAIN Deps(k.name, k.period)}
    ELSE {}

\* remove, round after round, the pairs that read no pair still in S: what
\* is left after as many rounds as there are pairs lies on or above a cycle
RECURSIVE Peel(_, _)
Peel(S, n) ==
    LET T == {k \in S : Reads(k) \cap S # {}}
    IN  IF n = 0 \/ T = S THEN S ELSE Peel(T, n - 1)

Acyclic(S) ==
    /\ \A k \in S : Reads(k) \subseteq S
    /\ Peel(S, Cardinality(S)) = {}

FormulaVariables == {n \in SourceVariables : HasFormula(n)}

RunStart == stack = <<>> /\ requests = 0

(* C11: with the variables of the source registered, the graph of the       *)
(* evaluate calls over (name, period) pairs, for every month and year and    *)
(* with the cross-period calls, has no cycle; no evaluation raises           *)
(* CyclicDependency; no formula is invoked twice in a run and the nesting    *)
(* of evaluate calls never exceeds the number of formulas, so that every     *)
(* evaluation ends after finitely many nested calls.                         *)
C11_SourceGraphAcyclic ==
    registry = SourceVariables =>
        /\ RunStart => Acyclic(RegisteredKeys)
        /\ ~(outcome.kind = "error" /\ outcome.error = "CyclicDependency")
        /\ \A k \in DOMAIN calls : calls[k] = 1
        /\ Len(stack) <= Cardinality(FormulaVariables)
        /\ \A i \in 1..Len(stack) :
                /\ stack[i].key \in RegisteredKeys
                /\ \A j \in 1..Len(stack) :
                        i # j => stack[i].key # stack[j].key

\* total_taxes is being computed and the nested calls have come down, through
\* income_tax, taxable_income and self_employment_taxable_income, to
\* zelfstandigenaftrek, which is about to read the year of the month;
\* housing_tax of the year is still to be read
C11_Witness ==
    /\ registry = SourceVariables
    /\ Len(stack) = 5
    /\ stack[1].key = Key("total_taxes", runPeriod)
    /\ stack[2].key = Key("income_tax", runPeriod)
    /\ stack[3].key = Key("taxable_income", runPeriod)
    /\ stack[4].key = Key("self_employment_taxable_income", runPeriod)
    /\ Top.key = Key("zelfstandigenaftrek", runPeriod)
    /\ Top.args = <<>>
    /\ runPeriod.month # 1
    /\ Key("housing_tax", this_year(runPeriod)) \notin DOMAIN cache

====
